---- MODULE Spec2Model ----
(***************************************************************************)
(* The /harmonize pipeline of the ASA directory editor worker: collection  *)
(* of files from the source-control provider, one call of the language     *)
(* model, and, in apply mode, branch creation, file writes and the pull    *)
(* request.  Every remote call is one step; the provider's answers are     *)
(* chosen nondeterministically among those the provider can give.          *)
(***************************************************************************)
EXTENDS Integers, Sequences, FiniteSets, TLC

(***************************************************************************)
(* Transport encoding.  A transport string is a sequence of symbols:       *)
(* 0..63 are the base64 alphabet, PadSym is '=', NlSym is a line break.    *)
(* A binary string is a sequence of bytes 0..255; a text is a sequence of  *)
(* UTF-16 code units (only the basic plane occurs in the model).           *)
(***************************************************************************)
PadSym == 64
NlSym == 65

\* An exception thrown by a runtime function, or its result.
Thrown(name) == [ok |-> FALSE, err |-> name]
Value(v) == [ok |-> TRUE, val |-> v]

\* atob: strips white space, drops the padding, rejects a bad length or
\* symbol, and joins each four symbols into three bytes.
atob(str) ==
    LET NotNl(x) == x # NlSym
        s1 == SelectSeq(str, NotNl)
        n1 == Len(s1)
        s2 == IF n1 % 4 = 0 /\ n1 >= 2 /\ s1[n1] = PadSym /\ s1[n1 - 1] = PadSym
                THEN SubSeq(s1, 1, n1 - 2)
              ELSE IF n1 % 4 = 0 /\ n1 >= 1 /\ s1[n1] = PadSym
                THEN SubSeq(s1, 1, n1 - 1)
              ELSE s1
        n2 == Len(s2)
        Sx(i) == IF i <= n2 THEN s2[i] ELSE 0
        ByteAt(j) ==
            LET g == 4 * ((j - 1) \div 3)
                r == (j - 1) % 3
            IN  IF r = 0 THEN Sx(g + 1) * 4 + (Sx(g + 2) \div 16)
                ELSE IF r = 1 THEN (Sx(g + 2) % 16) * 16 + (Sx(g + 3) \div 4)
                ELSE (Sx(g + 3) % 4) * 64 + Sx(g + 4)
    IN  IF n2 % 4 = 1 \/ \E i \in 1..n2 : s2[i] > 63
          THEN Thrown("InvalidCharacterError")
        ELSE Value([j \in 1..((n2 * 6) \div 8) |-> ByteAt(j)])

\* btoa: three bytes become four symbols, the last group padded.
btoa(bytes) ==
    LET n == Len(bytes)
        Bx(i) == IF i <= n THEN bytes[i] ELSE 0
        SymAt(k) ==
            LET g == 3 * ((k - 1) \div 4)
                r == (k - 1) % 4
            IN  IF r = 0 THEN Bx(g + 1) \div 4
                ELSE IF r = 1 THEN (Bx(g + 1) % 4) * 16 + (Bx(g + 2) \div 16)
                ELSE IF r = 2
                  THEN IF g + 2 > n THEN PadSym
                       ELSE (Bx(g + 2) % 16) * 4 + (Bx(g + 3) \div 64)
                ELSE IF g + 3 > n THEN PadSym ELSE Bx(g + 3) % 64
    IN  IF \E i \in 1..n : bytes[i] > 255
          THEN Thrown("InvalidCharacterError")
        ELSE Value([k \in 1..(4 * ((n + 2) \div 3)) |-> SymAt(k)])

\* The class of a byte in UTF-8: 1, 2, 3 = first byte of a sequence of that
\* length, 0 = continuation byte, -1 = no byte of a basic-plane sequence.
Utf8Class(b) ==
    IF b < 128 THEN 1
    ELSE IF b < 192 THEN 0
    ELSE IF b >= 194 /\ b < 224 THEN 2
    ELSE IF b >= 224 /\ b < 240 THEN 3
    ELSE -1

\* decodeURIComponent(escape(bin)): the bytes read as UTF-8; URIError on a
\* malformed sequence.
utf8decode(bin) ==
    LET n == Len(bin)
        Cont(i) == i >= 1 /\ i <= n /\ Utf8Class(bin[i]) = 0
        Cls(i) == IF i >= 1 /\ i <= n THEN Utf8Class(bin[i]) ELSE -1
        WellFormedAt(i) ==
            LET c == Utf8Class(bin[i])
            IN  IF c = 1 THEN TRUE
                ELSE IF c = 2 THEN Cont(i + 1)
                ELSE IF c = 3
                  THEN /\ Cont(i + 1) /\ Cont(i + 2)
                       /\ (bin[i] = 224 => bin[i + 1] >= 160)
                       /\ (bin[i] = 237 => bin[i + 1] < 160)
                ELSE IF c = 0
                  THEN \/ Cls(i - 1) \in {2, 3}
                       \/ (Cls(i - 2) = 3 /\ Cont(i - 1))
                ELSE FALSE
        IsLead(i) == Utf8Class(bin[i]) # 0
        leads == SelectSeq([i \in 1..n |-> i], IsLead)
        UnitAt(i) ==
            LET c == Utf8Class(bin[i])
            IN  IF c = 1 THEN bin[i]
                ELSE IF c = 2 THEN (bin[i] % 32) * 64 + (bin[i + 1] % 64)
                ELSE (bin[i] % 16) * 4096 + (bin[i + 1] % 64) * 64 + (bin[i + 2] % 64)
    IN  IF \E i \in 1..n : ~WellFormedAt(i)
          THEN Thrown("URIError")
        ELSE Value([k \in 1..Len(leads) |-> UnitAt(leads[k])])

\* unescape(encodeURIComponent(str)): the code units written as UTF-8.
RECURSIVE utf8encode(_)
utf8encode(str) ==
    IF str = <<>> THEN <<>>
    ELSE LET u == Head(str)
             bytes == IF u < 128 THEN <<u>>
                      ELSE IF u < 2048 THEN <<192 + (u \div 64), 128 + (u % 64)>>
                      ELSE <<224 + (u \div 4096), 128 + ((u \div 64) % 64), 128 + (u % 64)>>
         IN  bytes \o utf8encode(Tail(str))

base64encode(str) == btoa(utf8encode(str))

base64decode(str) ==
    LET bin == atob(str)
    IN  IF bin.ok THEN utf8decode(bin.val) ELSE bin

(***************************************************************************)
(* Program constants and the bounds of the model.                          *)
(***************************************************************************)
SizeLimit == 120000
TruncLimit == 7000
FileCap == 12

\* Largest number of proposed changes in a model reply.
MaxChanges == 2
\* Largest value the clock reaches.
MaxClock == 2

\* A JavaScript value that is undefined, and its rendering in a template
\* literal or by encodeURIComponent.
undefined == "<undefined>"
ToStr(v) == IF v = undefined THEN "undefined" ELSE v
\* A destructured property with its default.
Field(obj, name, default) == IF name \in DOMAIN obj THEN obj[name] ELSE default
\* slice with the end index one too far.
slice_OneMore(seq, n) == SubSeq(seq, 1, IF Len(seq) < n + 1 THEN Len(seq) ELSE n + 1)

\* String.prototype.slice(0, n) and Array.prototype.slice(0, n).
slice(seq, n) == SubSeq(seq, 1, IF Len(seq) < n THEN Len(seq) ELSE n)

Runs == {1, 2}
NoSha == 0
NoResponse == [status |-> 0]

(***************************************************************************)
(* The remote repository.  A tree maps each path of the base branch to a   *)
(* directory listing or to a file's metadata as the content endpoint       *)
(* reports it.                                                             *)
(***************************************************************************)
DirNode(items) == [type |-> "dir", entries |-> items]
FileNode(sha, size, hasContent, content) ==
    [type |-> "file", sha |-> sha, size |-> size,
     hasContent |-> hasContent, content |-> content]
Item(type, path) == [type |-> type, path |-> path]

\* The provider wraps transport strings: a line break after each 60 symbols.
Wrapped(str) ==
    LET n == Len(str)
    IN  [k \in 1..(n + (n \div 60)) |->
            IF k % 61 = 0 THEN NlSym ELSE str[k - (k \div 61)]]
Transport(bytes) == Wrapped(btoa(bytes).val)

TextAb == <<97, 98>>
\* "h" followed by e-acute: three bytes, two code units.
BytesHe == <<104, 195, 169>>
\* A byte sequence that is not UTF-8.
BytesBad == <<97, 255>>

SrcListing ==
    DirNode(<<Item("file", "src/a.txt"), Item("dir", "src/lib"),
              Item("symlink", "src/link"), Item("file", "src/z.txt")>>)
LibListing == DirNode(<<Item("file", "src/lib/b.txt")>>)

TreeShape(a, b, z) ==
    [p \in {"src", "src/lib", "src/a.txt", "src/lib/b.txt", "src/z.txt"} |->
        IF p = "src" THEN SrcListing
        ELSE IF p = "src/lib" THEN LibListing
        ELSE IF p = "src/a.txt" THEN a
        ELSE IF p = "src/lib/b.txt" THEN b
        ELSE z]

\* Trees with short contents: sizes around the size limit, files without
\* content, an empty file, a file that does not decode.
Tree1 == TreeShape(FileNode(1, 2, TRUE, Transport(utf8encode(TextAb))),
                   FileNode(2, SizeLimit + 1, TRUE, Transport(BytesHe)),
                   FileNode(3, SizeLimit, TRUE, Transport(BytesHe)))
Tree2 == TreeShape(FileNode(1, 0, TRUE, <<>>),
                   FileNode(2, 2, TRUE, Transport(utf8encode(TextAb))),
                   FileNode(3, 900000, FALSE, <<>>))
Tree3 == TreeShape(FileNode(1, 2, TRUE, Transport(BytesBad)),
                   FileNode(2, 3, TRUE, Transport(BytesHe)),
                   FileNode(3, 2, TRUE, Transport(utf8encode(TextAb))))

\* Trees with contents around the truncation bound.
LongBytes(n, accentAt) ==
    [i \in 1..n |-> IF i = accentAt THEN 195
                    ELSE IF i = accentAt + 1 THEN 169
                    ELSE 97 + (i % 3)]
Tree4 == TreeShape(FileNode(1, TruncLimit + 1, TRUE, Transport(LongBytes(TruncLimit + 1, 0 - 5))),
                   FileNode(2, TruncLimit, TRUE, Transport(LongBytes(TruncLimit, 0 - 5))),
                   FileNode(3, TruncLimit + 1, TRUE, Transport(LongBytes(TruncLimit + 1, 10))))
Tree5 == TreeShape(FileNode(1, TruncLimit + 3, TRUE, Transport(LongBytes(TruncLimit + 3, TruncLimit))),
                   FileNode(2, SizeLimit + 1, TRUE, Transport(LongBytes(TruncLimit + 2, 0 - 5))),
                   FileNode(3, TruncLimit - 1, TRUE, Transport(LongBytes(TruncLimit - 1, 0 - 5))))

\* A tree with more files than the cap of the model call, three levels deep:
\* pkg holds two files, the directory pkg/sub and eight more files; pkg/sub
\* holds a file, the directory pkg/sub/deep and a file; pkg/sub/deep two files.
WideName(i) == "pkg/f" \o (IF i < 10 THEN "0" ELSE "") \o ToString(i)
PkgListing ==
    DirNode(<<Item("file", WideName(1)), Item("file", WideName(2)), Item("dir", "pkg/sub")>>
            \o [i \in 1..8 |-> Item("file", WideName(i + 2))])
SubListing ==
    DirNode(<<Item("file", "pkg/sub/s1"), Item("dir", "pkg/sub/deep"),
              Item("file", "pkg/sub/s2")>>)
DeepListing == DirNode(<<Item("file", "pkg/sub/deep/d1"), Item("file", "pkg/sub/deep/d2")>>)
Tree6 ==
    [p \in {"pkg", "pkg/sub", "pkg/sub/deep", "pkg/sub/s1", "pkg/sub/s2",
            "pkg/sub/deep/d1", "pkg/sub/deep/d2"} \cup {WideName(i) : i \in 1..10} |->
        IF p = "pkg" THEN PkgListing
        ELSE IF p = "pkg/sub" THEN SubListing
        ELSE IF p = "pkg/sub/deep" THEN DeepListing
        ELSE FileNode(7, 2, TRUE, Transport(utf8encode(TextAb)))]

\* The remote side of a run is one of seven: 1 to 5 are the trees above, 6 is
\* the wide tree, 7 is the tree two concurrent runs work on.
TreeOf(id) ==
    IF id = 1 THEN Tree1 ELSE IF id = 2 THEN Tree2 ELSE IF id = 3 THEN Tree3
    ELSE IF id = 4 THEN Tree4 ELSE IF id = 5 THEN Tree5
    ELSE IF id = 6 THEN Tree6 ELSE Tree2
ShortTrees == {1, 2, 3}
LongTrees == {4, 5}
WideTrees == {6}
PairTrees == {7}

\* The paths whose reads the provider can fail: every path of the small
\* trees, one directory and one file of the wide tree, none where two runs
\* work concurrently.
Unreliable(id) ==
    IF id \in WideTrees THEN {"pkg/sub/deep", WideName(10)}
    ELSE IF id \in PairTrees THEN {}
    ELSE DOMAIN TreeOf(id)

\* The files of a tree, as a branch created from the base holds them.
BaseFiles(id) ==
    LET t == TreeOf(id)
        fs == {p \in DOMAIN t : t[p].type = "file"}
    IN  [p \in fs |-> t[p].sha]

VARIABLES run, remote, now
vars == <<run, remote, now>>

(***************************************************************************)
(* Requests.  env holds the configured values, body the parsed request     *)
(* body; a property that is absent is not in the record's domain.          *)
(***************************************************************************)
EnvGood ==
    [GITHUB_TOKEN |-> "ght", OPENAI_API_KEY |-> "oak",
     GITHUB_OWNER |-> "acme", GITHUB_REPO |-> "site"]
EnvNoToken == [OPENAI_API_KEY |-> "oak", GITHUB_OWNER |-> "acme", GITHUB_REPO |-> "site"]
EnvNoKey == [GITHUB_TOKEN |-> "ght", GITHUB_OWNER |-> "acme", GITHUB_REPO |-> "site"]
EnvNoOwner == [GITHUB_TOKEN |-> "ght", OPENAI_API_KEY |-> "oak", GITHUB_REPO |-> "site"]
EnvNoRepo == [GITHUB_TOKEN |-> "ght", OPENAI_API_KEY |-> "oak", GITHUB_OWNER |-> "acme"]
EnvEmptyKey == [EnvGood EXCEPT !.OPENAI_API_KEY = ""]

PathLists == {<<"src">>, <<"src/lib", "src/a.txt">>, <<"gone", "src/z.txt">>}

\* Requests that pass the validation.
GoodRequests ==
    {[method |-> "POST", env |-> EnvGood, body |-> [paths |-> ps, apply |-> a]] :
        ps \in PathLists, a \in BOOLEAN}
    \cup {[method |-> "POST", env |-> EnvGood, body |-> [paths |-> <<"src/lib">>]],
          [method |-> "POST", env |-> EnvNoOwner,
           body |-> [paths |-> <<"src/lib">>, apply |-> TRUE, owner |-> "other"]]}
\* Requests that do not.
BadRequests ==
    {[method |-> "POST", env |-> e, body |-> [paths |-> <<"src">>, apply |-> a]] :
        e \in {EnvNoToken, EnvNoKey, EnvNoOwner, EnvNoRepo, EnvEmptyKey}, a \in BOOLEAN}
    \cup {[method |-> "POST", env |-> EnvGood, body |-> [paths |-> <<>>, apply |-> a]] :
            a \in BOOLEAN}
    \cup {[method |-> "POST", env |-> EnvGood, body |-> [apply |-> TRUE]],
          [method |-> "POST", env |-> EnvGood,
           body |-> [paths |-> <<"src">>, apply |-> TRUE, repo |-> ""]],
          [method |-> "POST", env |-> EnvGood, body |-> [malformed |-> TRUE]],
          [method |-> "GET", env |-> EnvGood, body |-> [paths |-> <<"src">>]]}
Requests == GoodRequests \cup BadRequests

\* The state of a run before its request is read.
NewRun(request) ==
    [pc |-> "start", request |-> request,
     owner |-> undefined, repo |-> undefined, baseBranch |-> undefined,
     note |-> undefined, paths |-> <<>>, apply |-> FALSE,
     todo |-> <<>>, collected |-> <<>>,
     harmonizerResult |-> [files |-> <<>>],
     baseSha |-> NoSha, newBranch |-> 0, next |-> 1, existingSha |-> NoSha,
     updateResults |-> <<>>, log |-> <<>>, response |-> NoResponse]
\* A run that serves no request.
IdleRun == [NewRun([method |-> "none", env |-> <<>>, body |-> <<>>]) EXCEPT !.pc = "idle"]

\* json(obj, status): the response of the run.
Respond(s, status, obj) ==
    [s EXCEPT !.pc = "done", !.response = [status |-> status] @@ obj]
\* The catch clause that lets the error escape, so that no response is built.
Caught_Rethrows(s, message) == [s EXCEPT !.pc = "failed"]
\* The catch clause of the handler.
Caught(s, message) == Respond(s, 500, [ok |-> FALSE, error |-> message])

\* One remote call in the log of a run.
\* result is "ok", "fail" (a status that is not a success) or "reject" (the
\* transport fails and fetch throws).
Call(svc, method, kind, args, result) ==
    [svc |-> svc, method |-> method, kind |-> kind, args |-> args, result |-> result]
Logged(s, call) == [s EXCEPT !.log = Append(@, call)]

\* A value that JavaScript takes as false in a condition.
Missing(obj, name) == name \notin DOMAIN obj \/ obj[name] = ""

(***************************************************************************)
(* The handler up to the first remote call: routing, parsing of the body,  *)
(* validation.                                                             *)
(***************************************************************************)
\* The validation without the check of the source-control credential.
Validated_NoTokenCheck(s) ==
    LET env == s.request.env
        body == s.request.body
        owner == Field(body, "owner", Field(env, "GITHUB_OWNER", undefined))
        repo == Field(body, "repo", Field(env, "GITHUB_REPO", undefined))
        paths == Field(body, "paths", <<>>)
    IN  IF s.request.method # "POST"
          THEN Respond(s, 405, [ok |-> FALSE, error |-> "Only POST allowed"])
        ELSE IF "malformed" \in DOMAIN body THEN Caught(s, "SyntaxError")
        ELSE IF Missing(env, "OPENAI_API_KEY") THEN Caught(s, "Missing OPENAI_API_KEY")
        ELSE IF owner \in {undefined, ""} \/ repo \in {undefined, ""}
          THEN Caught(s, "Missing repo owner/name")
        ELSE IF Len(paths) = 0 THEN Caught(s, "No paths provided")
        ELSE [s EXCEPT !.pc = "collect",
                       !.owner = owner, !.repo = repo, !.baseBranch = "main",
                       !.note = Field(body, "note", "ASA MATRIX harmonizer run"),
                       !.paths = paths, !.apply = Field(body, "apply", FALSE),
                       !.todo = [i \in 1..Len(paths) |-> [op |-> "crawl", path |-> paths[i]]]]

Validated(s) ==
    LET env == s.request.env
        body == s.request.body
        owner == Field(body, "owner", Field(env, "GITHUB_OWNER", undefined))
        repo == Field(body, "repo", Field(env, "GITHUB_REPO", undefined))
        baseBranch ==
            Field(body, "baseBranch",
                  IF Missing(env, "BASE_BRANCH") THEN "main" ELSE env.BASE_BRANCH)
        paths == Field(body, "paths", <<>>)
    IN  IF s.request.method # "POST"
          THEN Respond(s, 405, [ok |-> FALSE, error |-> "Only POST allowed"])
        ELSE IF "malformed" \in DOMAIN body THEN Caught(s, "SyntaxError")
        ELSE IF Missing(env, "GITHUB_TOKEN") THEN Caught(s, "Missing GITHUB_TOKEN")
        ELSE IF Missing(env, "OPENAI_API_KEY") THEN Caught(s, "Missing OPENAI_API_KEY")
        ELSE IF owner \in {undefined, ""} \/ repo \in {undefined, ""}
          THEN Caught(s, "Missing repo owner/name")
        ELSE IF Len(paths) = 0 THEN Caught(s, "No paths provided")
        ELSE [s EXCEPT !.pc = "collect",
                       !.owner = owner, !.repo = repo, !.baseBranch = baseBranch,
                       !.note = Field(body, "note", "ASA MATRIX harmonizer run"),
                       !.paths = paths, !.apply = Field(body, "apply", FALSE),
                       !.todo = [i \in 1..Len(paths) |-> [op |-> "crawl", path |-> paths[i]]]]

Receive(r) ==
    /\ run[r].pc = "start"
    /\ run' = [run EXCEPT ![r] = Validated(run[r])]
    /\ UNCHANGED <<remote, now>>

(***************************************************************************)
(* Collection: crawlGitHubDir and pushFile.  todo is the rest of the       *)
(* traversal: the pending calls of crawlGitHubDir and pushFile in the      *)
(* order the loops of the handler and of crawlGitHubDir issue them.        *)
(***************************************************************************)
Results == {"ok", "fail", "reject"}

\* The answers the provider can give to a read of path on the base branch.
ReadAnswers(path) ==
    IF path \notin DOMAIN TreeOf(remote.tree) THEN {"fail", "reject"}
    ELSE IF path \in Unreliable(remote.tree) THEN Results
    ELSE {"ok"}

\* The loop over a listing reading the files first and the directories last.
ItemCalls_FilesFirst(items) ==
    LET IsFile(it) == it.type = "file"
        IsDir(it) == it.type = "dir"
        files == SelectSeq(items, IsFile)
        dirs == SelectSeq(items, IsDir)
    IN  [i \in 1..Len(files) |-> [op |-> "push", path |-> files[i].path]]
        \o [i \in 1..Len(dirs) |-> [op |-> "crawl", path |-> dirs[i].path]]

\* The calls the loop over a listing makes, in listing order.
ItemCalls(items) ==
    LET Known(it) == it.type \in {"dir", "file"}
        kept == SelectSeq(items, Known)
    IN  [i \in 1..Len(kept) |->
            [op |-> IF kept[i].type = "dir" THEN "crawl" ELSE "push",
             path |-> kept[i].path]]

\* The handler without its check for an empty collection.
Collected_NoEmptyCheck(s) ==
    IF s.todo # <<>> THEN s ELSE [s EXCEPT !.pc = "model"]

\* The handler after the loop over paths: no files, or on to the model.
Collected(s) ==
    IF s.todo # <<>> THEN s
    ELSE IF Len(s.collected) = 0
      THEN Respond(s, 400, [ok |-> FALSE, error |-> "No files found in provided paths",
                            paths |-> s.paths])
    ELSE [s EXCEPT !.pc = "model"]

\* crawlGitHubDir putting a listing whose read failed back at the end of the
\* traversal, the failed read unrecorded.
Crawled_TriesAgain(s, path, result) ==
    LET data == TreeOf(remote.tree)[path]
        rest == Tail(s.todo)
    IN  IF result = "reject" THEN Caught(s, "fetch failed")
        ELSE IF result = "fail"
          THEN [s EXCEPT !.todo = rest \o <<Head(s.todo)>>,
                         !.log = SubSeq(@, 1, Len(@) - 1)]
        ELSE IF data.type = "dir"
          THEN Collected([s EXCEPT !.todo = ItemCalls(data.entries) \o rest])
        ELSE Collected([s EXCEPT !.todo = <<[op |-> "push", path |-> path]>> \o rest])

\* crawlGitHubDir from its read of the listing on.
Crawled(s, path, result) ==
    LET data == TreeOf(remote.tree)[path]
        rest == Tail(s.todo)
    IN  IF result = "reject" THEN Caught(s, "fetch failed")
        ELSE IF result = "fail" THEN Collected([s EXCEPT !.todo = rest])
        ELSE IF data.type = "dir"
          THEN Collected([s EXCEPT !.todo = ItemCalls(data.entries) \o rest])
        ELSE Collected([s EXCEPT !.todo = <<[op |-> "push", path |-> path]>> \o rest])

CrawlDir(r) ==
    LET s == run[r]
    IN  /\ s.pc = "collect"
        /\ Head(s.todo).op = "crawl"
        /\ \E result \in ReadAnswers(Head(s.todo).path) :
              LET path == Head(s.todo).path
                  call == Call("github", "GET", "contents",
                               [path |-> path, ref |-> s.baseBranch,
                                from |-> "crawlGitHubDir"], result)
              IN  run' = [run EXCEPT ![r] = Crawled(Logged(s, call), path, result)]
        /\ UNCHANGED <<remote, now>>

\* pushFile skipping a file whose size is the limit itself.
Pushed_SizeInclusive(s, path, result) ==
    LET meta == TreeOf(remote.tree)[path]
        rest == Tail(s.todo)
        decoded == base64decode(meta.content)
    IN  IF result = "reject" THEN Caught(s, "fetch failed")
        ELSE IF result = "fail" THEN Collected([s EXCEPT !.todo = rest])
        ELSE IF ~meta.hasContent \/ meta.content = <<>>
          THEN Collected([s EXCEPT !.todo = rest])
        ELSE IF meta.size >= SizeLimit THEN Collected([s EXCEPT !.todo = rest])
        ELSE IF ~decoded.ok THEN Caught(s, decoded.err)
        ELSE Collected([s EXCEPT
                 !.todo = rest,
                 !.collected = Append(@, [path |-> path,
                                          content |-> slice(decoded.val, TruncLimit)])])

\* pushFile from its read of the metadata on.
Pushed(s, path, result) ==
    LET meta == TreeOf(remote.tree)[path]
        rest == Tail(s.todo)
        decoded == base64decode(meta.content)
    IN  IF result = "reject" THEN Caught(s, "fetch failed")
        ELSE IF result = "fail" THEN Collected([s EXCEPT !.todo = rest])
        ELSE IF ~meta.hasContent \/ meta.content = <<>>
          THEN Collected([s EXCEPT !.todo = rest])
        ELSE IF meta.size > SizeLimit THEN Collected([s EXCEPT !.todo = rest])
        ELSE IF ~decoded.ok THEN Caught(s, decoded.err)
        ELSE Collected([s EXCEPT
                 !.todo = rest,
                 !.collected = Append(@, [path |-> path,
                                          content |-> slice(decoded.val, TruncLimit)])])

PushFile(r) ==
    LET s == run[r]
    IN  /\ s.pc = "collect"
        /\ Head(s.todo).op = "push"
        /\ \E result \in ReadAnswers(Head(s.todo).path) :
              LET path == Head(s.todo).path
                  call == Call("github", "GET", "contents",
                               [path |-> path, ref |-> s.baseBranch,
                                from |-> "pushFile"], result)
              IN  run' = [run EXCEPT ![r] = Pushed(Logged(s, call), path, result)]
        /\ UNCHANGED <<remote, now>>

(***************************************************************************)
(* The call of the language model: callOpenAIHarmonizer and the handler's  *)
(* checks of its result.                                                   *)
(***************************************************************************)
TextHe == <<104, 233>>
\* The entries a reply can hold: an existing file, a new file, an empty
\* path, no path at all.
ChangeSet ==
    {[path |-> "src/a.txt", content |-> TextAb, rationale |-> "tidy"],
     [path |-> "new.txt", content |-> TextHe],
     [path |-> "", content |-> TextAb],
     [content |-> TextAb]}
RECURSIVE ChangeLists(_)
ChangeLists(n) ==
    IF n = 0 THEN {<<>>}
    ELSE LET shorter == ChangeLists(n - 1)
         IN  shorter \cup {Append(l, c) : l \in {x \in shorter : Len(x) = n - 1}, c \in ChangeSet}

\* What the model service can answer: the text of the message, parsed or not.
ParsedReplies ==
    {[files |-> l] : l \in ChangeLists(MaxChanges)}
    \cup {[summary |-> "unified"],
          [summary |-> "unified", files |-> <<[path |-> "new.txt", content |-> TextHe]>>]}
Replies ==
    {[text |-> "object", value |-> v] : v \in ParsedReplies}
    \cup {[text |-> "null"], [text |-> "not json"], [text |-> "no choices"]}
\* The replies to the runs that work concurrently: one proposed change.
PairReplies ==
    {[text |-> "object", value |-> [files |-> <<c>>]] :
        c \in {x \in ChangeSet : "path" \in DOMAIN x /\ x.path # ""}}
    \cup {[text |-> "null"]}
RepliesFor(id) == IF id \in PairTrees THEN PairReplies ELSE Replies

\* The prompt: one labelled block per file.
listText(files) == [i \in 1..Len(files) |-> <<"--- FILE: ", files[i].path, files[i].content>>]

\* The handler going on to apply mode whatever the request asked for.
Harmonized_ApplyAlways(s, result, reply) ==
    IF result # "ok" \/ reply.text # "object" THEN Caught(s, "Error")
    ELSE IF Len(Field(reply.value, "files", <<>>)) = 0
      THEN Respond(s, 500, [ok |-> FALSE, error |-> "Harmonizer returned no files"])
    ELSE [s EXCEPT !.pc = "getBaseRef", !.harmonizerResult = reply.value]

\* The handler creating the branch without looking the base branch up.
Harmonized_SkipLookup(s, result, reply) ==
    IF result # "ok" \/ reply.text # "object" THEN Caught(s, "Error")
    ELSE IF Len(Field(reply.value, "files", <<>>)) = 0
      THEN Respond(s, 500, [ok |-> FALSE, error |-> "Harmonizer returned no files"])
    ELSE IF ~s.apply
      THEN Respond([s EXCEPT !.harmonizerResult = reply.value], 200,
                   [ok |-> TRUE, mode |-> "preview", files |-> reply.value.files])
    ELSE [s EXCEPT !.pc = "createRef", !.harmonizerResult = reply.value,
                   !.newBranch = "asa-harmonizer-1"]

\* The handler without its check for an empty list of files.
Harmonized_NoEmptyCheck(s, result, reply) ==
    IF result # "ok" \/ reply.text # "object" THEN Caught(s, "Error")
    ELSE IF ~s.apply
      THEN Respond([s EXCEPT !.harmonizerResult = [files |-> <<>>] @@ reply.value], 200,
                   [ok |-> TRUE, mode |-> "preview",
                    files |-> Field(reply.value, "files", <<>>)])
    ELSE [s EXCEPT !.pc = "getBaseRef",
                   !.harmonizerResult = reply.value @@ [files |-> <<>>]]

\* The handler from the answer of the model service on.
Harmonized(s, result, reply) ==
    IF result # "ok" THEN Caught(s, "OpenAI Error")
    ELSE IF reply.text = "no choices" THEN Caught(s, "TypeError")
    ELSE IF reply.text = "not json" THEN Caught(s, "SyntaxError")
    ELSE IF reply.text = "null" THEN Caught(s, "TypeError")
    ELSE LET harmonizerResult == reply.value
             files == Field(harmonizerResult, "files", <<>>)
         IN  IF Len(files) = 0
               THEN Respond(s, 500, [ok |-> FALSE, error |-> "Harmonizer returned no files"])
             ELSE IF ~s.apply
               THEN Respond([s EXCEPT !.harmonizerResult = harmonizerResult], 200,
                            [ok |-> TRUE, mode |-> "preview",
                             summary |-> Field(harmonizerResult, "summary", "null"),
                             files |-> files])
             ELSE [s EXCEPT !.pc = "getBaseRef", !.harmonizerResult = harmonizerResult]

callOpenAIHarmonizer(r) ==
    LET s == run[r]
        payload == [owner |-> s.owner, repo |-> s.repo, baseBranch |-> s.baseBranch,
                    note |-> s.note, files |-> slice(s.collected, FileCap)]
        prompt == [repo |-> <<payload.owner, payload.repo>>, branch |-> payload.baseBranch,
                   mission |-> payload.note, files |-> listText(payload.files)]
    IN  /\ s.pc = "model"
        /\ \E result \in Results, reply \in RepliesFor(remote.tree) :
              \* no reply is read when the call fails
              /\ result # "ok" => reply.text = "null"
              /\ run' = [run EXCEPT ![r] =
                    Harmonized(Logged(s, Call("openai", "POST", "completions", prompt, result)
                                          @@ [reply |-> reply]),
                               result, reply)]
        /\ UNCHANGED <<remote, now>>

(***************************************************************************)
(* Apply mode.  ghClient.request throws when fetch throws and when the     *)
(* status is not a success: both are the result "fail" here.               *)
(***************************************************************************)
GhResults == {"ok", "fail"}
\* ghClient.request issuing the call again when it fails.
request_Retries(s, method, result, answered) ==
    IF result # "ok" THEN s ELSE answered

\* ghClient.request checking the status of creations and writes only.
request_ReadsUnchecked(s, method, result, answered) ==
    IF result # "ok" /\ method # "GET" THEN Caught(s, "GitHub " \o method \o " failed")
    ELSE answered

\* ghClient.request checking the status of reads and creations only.
request_WritesUnchecked(s, method, result, answered) ==
    IF result # "ok" /\ method # "PUT" THEN Caught(s, "GitHub " \o method \o " failed")
    ELSE answered

\* ghClient.request after the answer: throws unless the status is a success.
\* answered is the state of the run once the caller has the parsed answer.
request(s, method, result, answered) ==
    IF result # "ok" THEN Caught(s, "GitHub " \o method \o " failed") ELSE answered

BranchName(t) == "asa-harmonizer-" \o ToString(t)
\* The path a contents URL names: the path rendered into the URL by
\* encodeURIComponent and decoded by the provider.
UrlPath(file) == ToStr(Field(file, "path", undefined))

\* The loop ending after the first proposed change.
NextFile_FirstOnly(s) ==
    IF s.next > 1
      THEN [s EXCEPT !.pc = "createPr"]
    ELSE [s EXCEPT !.pc = "probe", !.existingSha = NoSha]

\* The loop over the proposed changes: the next file, or the pull request.
NextFile(s) ==
    IF s.next > Len(s.harmonizerResult.files)
      THEN [s EXCEPT !.pc = "createPr"]
    ELSE [s EXCEPT !.pc = "probe", !.existingSha = NoSha]

\* Base branch lookup, then the name of the new branch from the clock.
GetBaseRef(r) ==
    LET s == run[r]
        url == [ref |-> s.baseBranch]
    IN  /\ s.pc = "getBaseRef"
        /\ \E result \in GhResults, t \in now..MaxClock :
              /\ now' = IF result = "ok" THEN t ELSE now
              /\ result # "ok" => t = now
              /\ run' = [run EXCEPT ![r] =
                    request(Logged(s, Call("github", "GET", "ref", url, result)),
                            "GET", result,
                            [Logged(s, Call("github", "GET", "ref", url, result)) EXCEPT
                                !.pc = "createRef",
                                !.baseSha = remote.baseHead,
                                !.newBranch = BranchName(t)])]
        /\ UNCHANGED remote

\* A provider that accepts the creation of a reference that exists.
CanCreateRef_AnyName(body) == body.sha = remote.baseHead

\* The provider creates a reference only under a new name.
CanCreateRef(body) == body.ref \notin DOMAIN remote.branches /\ body.sha = remote.baseHead

CreateRef(r) ==
    LET s == run[r]
        body == [ref |-> s.newBranch, sha |-> s.baseSha]
    IN  /\ s.pc = "createRef"
        /\ \E result \in GhResults :
              LET called == Logged(s, Call("github", "POST", "refs", body, result))
              IN  /\ result = "ok" => CanCreateRef(body)
                  /\ remote' = IF result = "ok"
                                 THEN [remote EXCEPT
                                          !.branches = (body.ref :> BaseFiles(remote.tree)) @@ @]
                               ELSE remote
                  /\ run' = [run EXCEPT ![r] =
                        request(called, "POST", result,
                                NextFile([called EXCEPT !.next = 1, !.updateResults = <<>>]))]
        /\ UNCHANGED now

\* The existence check whose failure is not caught.
Probed_FailureThrows(s, result, sha) ==
    IF result = "ok" THEN [s EXCEPT !.pc = "write", !.existingSha = sha]
    ELSE Caught(s, "GitHub GET failed")

\* The existence check that never finds the file.
Probed_NeverFinds(s, result, sha) ==
    [s EXCEPT !.pc = "write", !.existingSha = NoSha]

\* What the existence check finds: existing.sha is the blob SHA of a file
\* and nothing when the answer is a listing or the read fails.
Probed(s, result, sha) ==
    [s EXCEPT !.pc = "write", !.existingSha = IF result = "ok" THEN sha ELSE NoSha]

ProbeFile(r) ==
    LET s == run[r]
        file == s.harmonizerResult.files[s.next]
        url == [path |-> UrlPath(file), ref |-> s.newBranch]
        onBranch == remote.branches[url.ref]
    IN  /\ s.pc = "probe"
        /\ \E result \in GhResults :
              /\ result = "ok" => (url.path \in DOMAIN onBranch \/ url.path = "")
              /\ run' = [run EXCEPT ![r] =
                    Probed(Logged(s, Call("github", "GET", "contents", url, result)), result,
                           IF url.path \in DOMAIN onBranch THEN onBranch[url.path] ELSE NoSha)]
        /\ UNCHANGED <<remote, now>>

\* The provider writes a file only with the blob SHA of the file it replaces,
\* and only without one when it creates the file.
CanWrite(path, payload) ==
    /\ path # ""
    /\ payload.branch \in DOMAIN remote.branches
    /\ LET onBranch == remote.branches[payload.branch]
       IN  IF path \in DOMAIN onBranch
             THEN "sha" \in DOMAIN payload /\ payload.sha = onBranch[path]
           ELSE "sha" \notin DOMAIN payload

\* The entry the handler records for a written file.
Outcome(s, file, commit) ==
    [path |-> Field(file, "path", undefined),
     status |-> IF s.existingSha # NoSha THEN "updated" ELSE "created",
     commit |-> commit]

\* The handler putting the newest outcome first.
Written_Prepends(s, file, commit) ==
    NextFile([s EXCEPT !.updateResults = <<Outcome(s, file, commit)>> \o @,
                       !.next = @ + 1])

\* The handler after the write of a file.
Written(s, file, commit) ==
    NextFile([s EXCEPT !.updateResults = Append(@, Outcome(s, file, commit)),
                       !.next = @ + 1])

\* The payload that names the base branch.
WritePayload_ToBase(s, file) ==
    [message |-> "ASA Harmonizer Update: " \o ToStr(Field(file, "path", undefined)),
     content |-> base64encode(file.content).val,
     branch |-> s.baseBranch]

\* The payload that never carries the blob SHA.
WritePayload_NoSha(s, file) ==
    [message |-> "ASA Harmonizer Update: " \o ToStr(Field(file, "path", undefined)),
     content |-> base64encode(file.content).val,
     branch |-> s.newBranch]

WritePayload(s, file) ==
    LET payload == [message |-> "ASA Harmonizer Update: " \o ToStr(Field(file, "path", undefined)),
                    content |-> base64encode(file.content).val,
                    branch |-> s.newBranch]
    IN  IF s.existingSha # NoSha THEN payload @@ [sha |-> s.existingSha] ELSE payload

WriteFile(r) ==
    LET s == run[r]
        file == s.harmonizerResult.files[s.next]
        path == UrlPath(file)
        payload == WritePayload(s, file)
        blob == remote.blobs + 1
    IN  /\ s.pc = "write"
        /\ \E result \in GhResults :
              LET called == Logged(s, Call("github", "PUT", "contents",
                                           [path |-> path, payload |-> payload], result))
              IN  /\ result = "ok" => CanWrite(path, payload)
                  /\ remote' = IF result = "ok"
                                 THEN [remote EXCEPT
                                          !.branches[payload.branch] = (path :> blob) @@ @,
                                          !.blobs = blob]
                               ELSE remote
                  /\ run' = [run EXCEPT ![r] =
                        request(called, "PUT", result, Written(called, file, blob))]
        /\ UNCHANGED now

CreatePr(r) ==
    LET s == run[r]
        body == [title |-> "ASA Harmonizer Automatic PR", head |-> s.newBranch,
                 base |-> s.baseBranch,
                 body |-> Field(s.harmonizerResult, "summary", s.note)]
        number == Len(remote.prs) + 1
    IN  /\ s.pc = "createPr"
        /\ \E result \in GhResults :
              LET called == Logged(s, Call("github", "POST", "pulls", body, result))
              IN  /\ result = "ok" => body.head \in DOMAIN remote.branches
                  /\ remote' = IF result = "ok" THEN [remote EXCEPT !.prs = Append(@, body)]
                               ELSE remote
                  /\ run' = [run EXCEPT ![r] =
                        request(called, "POST", result,
                                Respond(called, 200,
                                        [ok |-> TRUE, mode |-> "apply", branch |-> s.newBranch,
                                         prNumber |-> number,
                                         changedFiles |-> s.updateResults]))]
        /\ UNCHANGED now

\* The provider before the run: the base branch alone.
NewRemote(tree) ==
    [tree |-> tree, baseHead |-> 500, branches |-> <<>>, prs |-> <<>>, blobs |-> 100]

\* One request, against one of the trees.
InitWith(requests, trees) ==
    /\ \E q \in requests : run = [r \in Runs |-> IF r = 1 THEN NewRun(q) ELSE IdleRun]
    /\ \E t \in trees : remote = NewRemote(t)
    /\ now = 1

Init == InitWith(Requests, ShortTrees)
Next ==
    \E r \in Runs :
        \/ Receive(r)
        \/ CrawlDir(r)
        \/ PushFile(r)
        \/ callOpenAIHarmonizer(r)
        \/ GetBaseRef(r)
        \/ CreateRef(r)
        \/ ProbeFile(r)
        \/ WriteFile(r)
        \/ CreatePr(r)
Spec == Init /\ [][Next]_vars

\* The same handler against trees whose files are as long as the truncation
\* bound.
LongRequests == {q \in GoodRequests : q.body.paths \in {<<"src">>, <<"src/lib">>}}
InitLong == InitWith(LongRequests, LongTrees)
SpecLong == InitLong /\ [][Next]_vars

\* The same handler against the wide tree.
WidePathLists == {<<"pkg">>, <<"pkg/sub", WideName(1)>>, <<"pkg/sub/deep", "pkg">>}
WideRequests ==
    {[method |-> "POST", env |-> EnvGood, body |-> [paths |-> ps, apply |-> a]] :
        ps \in WidePathLists, a \in BOOLEAN}
InitWide == InitWith(WideRequests, WideTrees)
SpecWide == InitWide /\ [][Next]_vars

\* Two requests served concurrently, both asking for apply.
PairRequests ==
    {[method |-> "POST", env |-> EnvGood, body |-> [paths |-> <<"src/lib">>, apply |-> TRUE]]}
InitPair ==
    /\ run \in [Runs -> {NewRun(q) : q \in PairRequests}]
    /\ \E t \in PairTrees : remote = NewRemote(t)
    /\ now = 1
SpecPair == InitPair /\ [][Next]_vars

\* Every remote call resolves: a run that can take a step takes one.  The
\* requests are those for a preview, and one that asks for apply.
FairRequests ==
    {q \in GoodRequests : ~Field(q.body, "apply", FALSE) \/ q.body.paths = <<"src/lib">>}
InitFair ==
    \/ InitWith(FairRequests \cup BadRequests, ShortTrees)
    \/ InitWith({q \in WideRequests : ~q.body.apply}, WideTrees)
FairSpec == InitFair /\ [][Next]_vars /\ WF_vars(Next)

(***************************************************************************)
(* worker.js: the handler of POST /api/harmonize.  It creates a branch, one *)
(* touchpoint file on it and a pull request, with four remote calls.  The  *)
(* runs of this handler use the same remote and the same clock; their      *)
(* records hold the constants of the handler.                              *)
(***************************************************************************)
\* body.name || default.
OrDefault(obj, name, default) == IF Missing(obj, name) THEN default ELSE obj[name]

EnvBranch == EnvGood @@ [BASE_BRANCH |-> "dev"]
ApiBodies ==
    {<<>>,
     [malformed |-> TRUE],
     [title |-> "Tidy", description |-> "Tidy the sources", paths |-> <<"src", "docs">>],
     [caller |-> "cli", paths |-> <<>>, title |-> ""]}
ApiRequests ==
    {[method |-> "POST", path |-> "/api/harmonize", env |-> e, body |-> b] :
        e \in {EnvGood, EnvBranch, EnvNoKey, EnvNoToken, EnvNoOwner, EnvNoRepo}, b \in ApiBodies}
    \cup {[method |-> "GET", path |-> "/api/harmonize", env |-> EnvGood, body |-> <<>>]}

\* The state of a run of the handler before its request is read.
ApiRun(req) ==
    [pc |-> "api", request |-> req,
     title |-> undefined, description |-> undefined, paths |-> <<>>, caller |-> undefined,
     owner |-> undefined, repo |-> undefined, baseBranch |-> undefined, token |-> undefined,
     baseSha |-> NoSha, branchName |-> 0, filePath |-> 0,
     log |-> <<>>, response |-> NoResponse]

\* The answer to a fetch: the transport fails ("reject"), or there is a
\* status, a success ("ok") or not ("fail"), and a body that can be read or
\* cannot.  bodyRead tells whether the handler reads the body of a success.
Answers(bodyRead) ==
    {[result |-> "reject", readable |-> FALSE]}
    \cup {[result |-> "fail", readable |-> b] : b \in BOOLEAN}
    \cup {[result |-> "ok", readable |-> b] : b \in IF bodyRead THEN BOOLEAN ELSE {TRUE}}
Fetched(s, method, kind, args, answer) ==
    Logged(s, Call("github", method, kind, args, answer.result)
                  @@ [readable |-> answer.readable])

\* The catch clause of the handler.
CaughtError(s, err) == Respond(s, 500, [ok |-> FALSE, error |-> err])
\* The answer of the handler to a step that failed; the status and the text
\* of the provider's answer are in body.
StepFailed(s, step) == Respond(s, 500, [ok |-> FALSE, step |-> step, body |-> "txt"])

\* The handler that reports a failed step through its catch clause.
Checked_Unnamed(s, step, answer, proceed) ==
    IF answer.result # "ok" \/ ~answer.readable THEN CaughtError(s, "Error") ELSE proceed

\* The handler after a fetch: a rejected fetch and a body that cannot be read
\* throw, a status that is not a success is answered with the step's name.
Checked(s, step, answer, proceed) ==
    IF answer.result = "reject" THEN CaughtError(s, "TypeError: fetch failed")
    ELSE IF ~answer.readable THEN CaughtError(s, "TypeError: body unreadable")
    ELSE IF answer.result = "fail" THEN StepFailed(s, step)
    ELSE proceed

\* Routing, the body, the constants of the run, and the check of the
\* configuration.
Configured(s) ==
    LET env == s.request.env
        body == IF "malformed" \in DOMAIN s.request.body THEN <<>> ELSE s.request.body
        t == [s EXCEPT
                !.title = OrDefault(body, "title",
                                    "ASA CODE-HARMONIZER - automatic harmonization"),
                !.description = OrDefault(body, "description",
                                          "PR created by ASA CODE-HARMONIZER worker (B layout)."),
                !.paths = Field(body, "paths", <<>>),
                !.caller = OrDefault(body, "caller", "ASA_MATRIX_UI"),
                !.owner = Field(env, "GITHUB_OWNER", undefined),
                !.repo = Field(env, "GITHUB_REPO", undefined),
                !.baseBranch = OrDefault(env, "BASE_BRANCH", "main"),
                !.token = Field(env, "GITHUB_TOKEN", undefined)]
    IN  IF ~(s.request.path = "/api/harmonize" /\ s.request.method = "POST")
          THEN Respond(s, 404, [text |-> "Not found"])
        ELSE IF Missing(env, "GITHUB_OWNER") \/ Missing(env, "GITHUB_REPO")
                \/ Missing(env, "GITHUB_TOKEN")
          THEN Respond(t, 500,
                       [ok |-> FALSE,
                        error |-> "Missing GITHUB_OWNER / GITHUB_REPO / GITHUB_TOKEN env vars in Cloudflare Worker."])
        ELSE [t EXCEPT !.pc = "get_base_ref"]

harmonize(r) ==
    /\ run[r].pc = "api"
    /\ run' = [run EXCEPT ![r] = Configured(run[r])]
    /\ UNCHANGED <<remote, now>>

\* Step 1: the SHA of the base branch, then the name of the new branch from
\* the clock.
get_base_ref(r) ==
    LET s == run[r]
        url == [ref |-> s.baseBranch]
    IN  /\ s.pc = "get_base_ref"
        /\ \E answer \in Answers(TRUE), t \in now..MaxClock :
              LET called == Fetched(s, "GET", "ref", url, answer)
                  proceeds == answer.result = "ok" /\ answer.readable
              IN  /\ ~proceeds => t = now
                  /\ now' = t
                  /\ run' = [run EXCEPT ![r] =
                        Checked(called, "get_base_ref", answer,
                                [called EXCEPT !.pc = "create_ref",
                                               !.baseSha = remote.baseHead,
                                               !.branchName = BranchName(t)])]
        /\ UNCHANGED remote

FilePath(t) == "asa_harmonizer/ASA_HARMONIZER_" \o ToString(t) \o ".md"

\* Step 2: the new branch, then the path of the touchpoint file from the
\* clock.
create_ref(r) ==
    LET s == run[r]
        body == [ref |-> s.branchName, sha |-> s.baseSha]
    IN  /\ s.pc = "create_ref"
        /\ \E answer \in Answers(FALSE), t \in now..MaxClock :
              LET called == Fetched(s, "POST", "refs", body, answer)
              IN  /\ answer.result = "ok" => CanCreateRef(body)
                  /\ answer.result # "ok" => t = now
                  /\ now' = t
                  /\ remote' = IF answer.result = "ok"
                                 THEN [remote EXCEPT
                                          !.branches = (body.ref :> BaseFiles(remote.tree)) @@ @]
                               ELSE remote
                  /\ run' = [run EXCEPT ![r] =
                        Checked(called, "create_ref", answer,
                                [called EXCEPT !.pc = "create_file",
                                               !.filePath = FilePath(t)])]

\* The text of the touchpoint file, as its lines.
markdownContent(s) ==
    <<"# ASA CODE-HARMONIZER", "", "Created at: " \o ToString(now), "Caller: " \o s.caller,
      "", "## Target paths", "">>
    \o (IF s.paths # <<>> THEN [i \in DOMAIN s.paths |-> "- " \o s.paths[i]]
        ELSE <<"- (none)">>)
    \o <<"", "## Notes", "", s.description>>
\* The content of the file in its transport encoding.
toBase64(lines) == [base64 |-> lines]

\* Step 3: the touchpoint file on the new branch.
create_file(r) ==
    LET s == run[r]
        payload == [message |-> "ASA CODE-HARMONIZER touchpoint for " \o s.branchName,
                    content |-> toBase64(markdownContent(s)),
                    branch |-> s.branchName]
        blob == remote.blobs + 1
    IN  /\ s.pc = "create_file"
        /\ \E answer \in Answers(FALSE) :
              LET called == Fetched(s, "PUT", "contents",
                                    [path |-> s.filePath, payload |-> payload], answer)
              IN  /\ answer.result = "ok" => CanWrite(s.filePath, payload)
                  /\ remote' = IF answer.result = "ok"
                                 THEN [remote EXCEPT
                                          !.branches[payload.branch] = (s.filePath :> blob) @@ @,
                                          !.blobs = blob]
                               ELSE remote
                  /\ run' = [run EXCEPT ![r] =
                        Checked(called, "create_file", answer,
                                [called EXCEPT !.pc = "create_pr"])]
        /\ UNCHANGED now

\* Step 4: the pull request, then the answer of the handler.
create_pr(r) ==
    LET s == run[r]
        body == [title |-> s.title, head |-> s.branchName, base |-> s.baseBranch,
                 body |-> s.description \o " (Automatically generated)"]
        number == Len(remote.prs) + 1
    IN  /\ s.pc = "create_pr"
        /\ \E answer \in Answers(TRUE) :
              LET called == Fetched(s, "POST", "pulls", body, answer)
              IN  /\ answer.result = "ok" => body.head \in DOMAIN remote.branches
                  /\ remote' = IF answer.result = "ok"
                                 THEN [remote EXCEPT !.prs = Append(@, body)]
                               ELSE remote
                  /\ run' = [run EXCEPT ![r] =
                        Checked(called, "create_pr", answer,
                                Respond(called, 200,
                                        [ok |-> TRUE, branch |-> s.branchName,
                                         filePath |-> s.filePath, pr_number |-> number]))]
        /\ UNCHANGED now

\* One request to the handler of worker.js.
InitApi ==
    /\ \E q \in ApiRequests : run = [r \in Runs |-> IF r = 1 THEN ApiRun(q) ELSE IdleRun]
    /\ \E t \in ShortTrees : remote = NewRemote(t)
    /\ now = 1
NextApi ==
    \E r \in Runs :
        \/ harmonize(r)
        \/ get_base_ref(r)
        \/ create_ref(r)
        \/ create_file(r)
        \/ create_pr(r)
SpecApi == InitApi /\ [][NextApi]_vars

(***************************************************************************)
(* Properties.                                                             *)
(***************************************************************************)
Active(r) == run[r].pc # "idle"
RequestedApply(r) == Field(run[r].request.body, "apply", FALSE)
IsMutating(c) == c.svc = "github" /\ c.method \in {"POST", "PUT"}
IsLookup(c) == c.svc = "github" /\ c.kind = "ref"
IsCreate(c) == c.svc = "github" /\ c.kind = "refs"
IsWrite(c) == c.svc = "github" /\ c.method = "PUT"
IsPr(c) == c.svc = "github" /\ c.kind = "pulls"
IsModelCall(c) == c.svc = "openai"
TreeFiles == {p \in DOMAIN TreeOf(remote.tree) : TreeOf(remote.tree)[p].type = "file"}
CollectedPaths(r) == {run[r].collected[i].path : i \in DOMAIN run[r].collected}
\* The run has left the loop over its paths by its end.
CollectionFinished(r) == run[r].paths # <<>> /\ run[r].todo = <<>>

\* C1: a run whose request does not ask for apply issues no branch creation,
\* file write or pull request, and while only such runs are served the remote
\* repository stays as it was.
C1_PreviewNeverMutates ==
    /\ \A r \in Runs :
          (Active(r) /\ ~RequestedApply(r)) =>
              \A i \in DOMAIN run[r].log : ~IsMutating(run[r].log[i])
    /\ (\A r \in Runs : Active(r) => ~RequestedApply(r)) =>
          remote = NewRemote(remote.tree)
C1_Witness ==
    \E r \in Runs :
        /\ Active(r) /\ ~RequestedApply(r)
        /\ run[r].pc = "done" /\ run[r].response.status = 200
        /\ run[r].response.mode = "preview"

\* C2: in the calls of a run, a branch creation comes only after a base
\* reference lookup, a file write only after a branch creation, a pull request
\* only after a branch creation and after every file write; no lookup follows
\* a creation and no creation follows a write.
C2_CallOrder ==
    \A r \in Runs :
        LET log == run[r].log
        IN  \A j \in DOMAIN log :
                /\ IsCreate(log[j]) => \E i \in 1..(j - 1) : IsLookup(log[i])
                /\ IsWrite(log[j]) =>
                      /\ \E i \in 1..(j - 1) : IsCreate(log[i])
                      /\ \A i \in DOMAIN log : (IsLookup(log[i]) \/ IsCreate(log[i])) => i < j
                /\ IsPr(log[j]) =>
                      /\ \E i \in 1..(j - 1) : IsCreate(log[i])
                      /\ \A i \in DOMAIN log :
                            (IsLookup(log[i]) \/ IsCreate(log[i]) \/ IsWrite(log[i])) => i < j
                /\ IsLookup(log[j]) => \A i \in DOMAIN log : IsCreate(log[i]) => j < i
C2_Witness ==
    \E r \in Runs :
        /\ run[r].pc = "done" /\ run[r].response.status = 200
        /\ run[r].response.mode = "apply"
        /\ Len(SelectSeq(run[r].log, IsWrite)) >= 2

\* The request lacks a credential, the owner or the name of the repository,
\* or its paths.
InvalidRequest(r) ==
    LET env == run[r].request.env
        body == run[r].request.body
    IN  /\ run[r].request.method = "POST"
        /\ "malformed" \notin DOMAIN body
        /\ \/ Missing(env, "GITHUB_TOKEN")
           \/ Missing(env, "OPENAI_API_KEY")
           \/ Field(body, "owner", Field(env, "GITHUB_OWNER", "")) = ""
           \/ Field(body, "repo", Field(env, "GITHUB_REPO", "")) = ""
           \/ Field(body, "paths", <<>>) = <<>>
ValidationErrors ==
    {"Missing GITHUB_TOKEN", "Missing OPENAI_API_KEY", "Missing repo owner/name",
     "No paths provided"}

\* C3: a request that lacks a credential, the repository owner or name, or
\* paths is answered ok:false with a validation error, and the run has issued
\* no remote call.
C3_ValidationFailsFast ==
    \A r \in Runs :
        (Active(r) /\ InvalidRequest(r) /\ run[r].pc # "start") =>
            /\ run[r].pc = "done"
            /\ run[r].response.ok = FALSE
            /\ run[r].response.error \in ValidationErrors
            /\ run[r].log = <<>>
C3_Witness ==
    \E r \in Runs :
        /\ Active(r) /\ InvalidRequest(r) /\ run[r].pc = "done"
        /\ run[r].response.error = "No paths provided"

\* The write a run is about to issue after its existence check: the file, its
\* path, the payload, the status it records, and the files on its branch.
PendingFile(r) == run[r].harmonizerResult.files[run[r].next]
PendingPayload(r) == WritePayload(run[r], PendingFile(r))
PendingStatus(r) == Outcome(run[r], PendingFile(r), 0).status
OnBranch(r) == remote.branches[run[r].newBranch]
PendingExists(r) == UrlPath(PendingFile(r)) \in DOMAIN OnBranch(r)
LastCall(r) == run[r].log[Len(run[r].log)]

\* C4 as stated: after the existence check, the payload carries the blob SHA
\* and the status is 'updated' whenever the path is a file of the new branch,
\* and the payload carries no SHA and the status is 'created' otherwise.
C4_Original ==
    \A r \in Runs :
        run[r].pc = "write" =>
            IF PendingExists(r)
              THEN /\ "sha" \in DOMAIN PendingPayload(r)
                   /\ PendingPayload(r).sha = OnBranch(r)[UrlPath(PendingFile(r))]
                   /\ PendingStatus(r) = "updated"
            ELSE /\ "sha" \notin DOMAIN PendingPayload(r)
                 /\ PendingStatus(r) = "created"

\* C4, amended: the payload carries the blob SHA and the status is 'updated'
\* when the path is a file of the new branch and the existence check
\* succeeded; the payload carries no SHA and the status is 'created' when the
\* path is absent or the existence check failed.
C4_CreateVsUpdate ==
    \A r \in Runs :
        run[r].pc = "write" =>
            IF PendingExists(r) /\ LastCall(r).result = "ok"
              THEN /\ "sha" \in DOMAIN PendingPayload(r)
                   /\ PendingPayload(r).sha = OnBranch(r)[UrlPath(PendingFile(r))]
                   /\ PendingStatus(r) = "updated"
            ELSE /\ "sha" \notin DOMAIN PendingPayload(r)
                 /\ PendingStatus(r) = "created"
C4_Witness ==
    \E r \in Runs :
        /\ Len(run[r].updateResults) = 2
        /\ run[r].updateResults[1].status = "updated"
        /\ run[r].updateResults[2].status = "created"
        /\ \E i \in DOMAIN run[r].log :
              /\ IsWrite(run[r].log[i])
              /\ "sha" \in DOMAIN run[r].log[i].args.payload

\* C5: a failed file write or pull request ends the run: it is the last call
\* of the run, the response is ok:false, and the branch and the files written
\* before it are still on the remote.
C5_AbortLeavesBranch ==
    \A r \in Runs :
        LET log == run[r].log
            base == BaseFiles(remote.tree)
        IN  \A f \in DOMAIN log :
                ((IsWrite(log[f]) \/ IsPr(log[f])) /\ log[f].result # "ok") =>
                    /\ f = Len(log)
                    /\ run[r].pc = "done"
                    /\ run[r].response.ok = FALSE
                    /\ run[r].newBranch \in DOMAIN remote.branches
                    /\ \A i \in 1..(f - 1) :
                          IsWrite(log[i]) =>
                              /\ log[i].args.path \in DOMAIN OnBranch(r)
                              /\ log[i].args.path \in DOMAIN base =>
                                    OnBranch(r)[log[i].args.path] # base[log[i].args.path]
C5_Witness ==
    \E r \in Runs :
        LET log == run[r].log
        IN  /\ Len(log) > 2
            /\ IsWrite(log[Len(log)]) /\ log[Len(log)].result = "fail"
            /\ \E i \in 1..(Len(log) - 1) : IsWrite(log[i]) /\ log[i].result = "ok"

\* The lookup, the creation, one write for each proposed change, in order, and
\* the pull request all succeeded.
AllSucceeded(r) ==
    LET log == run[r].log
        files == run[r].harmonizerResult.files
        writes == SelectSeq(log, IsWrite)
    IN  /\ \E i \in DOMAIN log : IsLookup(log[i]) /\ log[i].result = "ok"
        /\ \E i \in DOMAIN log : IsCreate(log[i]) /\ log[i].result = "ok"
        /\ \E i \in DOMAIN log : IsPr(log[i]) /\ log[i].result = "ok"
        /\ Len(writes) = Len(files)
        /\ \A k \in DOMAIN writes :
              writes[k].result = "ok" /\ writes[k].args.path = UrlPath(files[k])
        /\ \A i \in DOMAIN log :
              (IsLookup(log[i]) \/ IsMutating(log[i])) => log[i].result = "ok"

\* C6: a run has a response exactly when it is over; the response is ok:true
\* with mode 'apply' only if lookup, creation, every write and the pull
\* request succeeded, and a run that asked for apply ends in that response or
\* in ok:false.
C6_SuccessOnlyIfAllSucceeded ==
    \A r \in Runs :
        Active(r) =>
            /\ (run[r].pc = "done") <=> (run[r].response.status # 0)
            /\ run[r].pc = "done" =>
                  /\ (run[r].response.ok /\ run[r].response.mode = "apply") => AllSucceeded(r)
                  /\ RequestedApply(r) =>
                        \/ ~run[r].response.ok
                        \/ run[r].response.mode = "apply" /\ AllSucceeded(r)
C6_Witness ==
    \E r \in Runs :
        /\ run[r].pc = "done" /\ run[r].response.ok
        /\ run[r].response.mode = "apply" /\ Len(run[r].response.changedFiles) = 2

\* A reply that does not parse, has no files or has an empty list of files.
BadReply(reply) ==
    \/ reply.text \in {"not json", "null"}
    \/ /\ reply.text = "object"
       /\ "files" \notin DOMAIN reply.value \/ reply.value.files = <<>>

\* C7: after such a reply the run is over with ok:false and has issued no
\* mutating call, whether or not it asked for apply.
C7_BadReplyFailsBeforeMutation ==
    \A r \in Runs :
        LET log == run[r].log
        IN  \A i \in DOMAIN log :
                (IsModelCall(log[i]) /\ log[i].result = "ok" /\ BadReply(log[i].reply)) =>
                    /\ run[r].pc = "done"
                    /\ run[r].response.ok = FALSE
                    /\ \A j \in DOMAIN log : ~IsMutating(log[j])
C7_Witness ==
    \E r \in Runs :
        /\ Active(r) /\ RequestedApply(r) /\ run[r].pc = "done"
        /\ run[r].response.ok = FALSE
        /\ \E i \in DOMAIN run[r].log :
              /\ IsModelCall(run[r].log[i]) /\ run[r].log[i].result = "ok"
              /\ run[r].log[i].reply.text = "object"
              /\ "files" \in DOMAIN run[r].log[i].reply.value
              /\ run[r].log[i].reply.value.files = <<>>

\* C8: a run whose collection ends with no file is answered 'no files found'
\* and has not called the model service; the model service is called only with
\* files collected.
C8_NoFilesNoModelCall ==
    \A r \in Runs :
        /\ (CollectionFinished(r) /\ run[r].collected = <<>>) =>
              /\ run[r].pc = "done"
              /\ run[r].response.ok = FALSE
              /\ run[r].response.error = "No files found in provided paths"
              /\ \A i \in DOMAIN run[r].log : ~IsModelCall(run[r].log[i])
        /\ (\E i \in DOMAIN run[r].log : IsModelCall(run[r].log[i])) =>
              run[r].collected # <<>>
C8_Witness ==
    \E r \in Runs :
        /\ CollectionFinished(r) /\ run[r].collected = <<>>
        /\ run[r].response.status = 400
        /\ Len(run[r].log) >= 2

Oversized(p) == TreeOf(remote.tree)[p].size > SizeLimit
\* The metadata of the file passes every check of pushFile and decodes.
Collectable(p) ==
    LET meta == TreeOf(remote.tree)[p]
    IN  /\ meta.hasContent /\ meta.content # <<>>
        /\ meta.size <= SizeLimit
        /\ base64decode(meta.content).ok
\* pushFile has read the metadata of the file.
PushRead(r, p) ==
    \E i \in DOMAIN run[r].log :
        LET c == run[r].log[i]
        IN  /\ c.kind = "contents" /\ c.method = "GET" /\ c.result = "ok"
            /\ "from" \in DOMAIN c.args /\ c.args.from = "pushFile" /\ c.args.path = p

\* C9 as stated, for a walk of the whole tree in which every read succeeded:
\* the files over the size limit are absent and all other files are present.
C9_Original ==
    \A r \in Runs :
        (/\ run[r].paths = <<"src">> /\ CollectionFinished(r)
         /\ \A i \in DOMAIN run[r].log : run[r].log[i].result = "ok"
         /\ \E p \in TreeFiles : Oversized(p)) =>
            \A p \in TreeFiles : (p \in CollectedPaths(r)) <=> ~Oversized(p)

\* C9, amended: no file over the size limit is collected, and every file whose
\* metadata pushFile has read, with content that is not empty and decodes and a
\* size within the limit, is collected.
C9_SizeBound ==
    \A r \in Runs :
        Active(r) =>
            /\ \A p \in CollectedPaths(r) : ~Oversized(p)
            /\ \A p \in TreeFiles :
                  (PushRead(r, p) /\ Collectable(p)) => p \in CollectedPaths(r)
C9_Witness ==
    \E r \in Runs :
        /\ run[r].paths = <<"src">> /\ CollectionFinished(r)
        /\ \E p \in TreeFiles : Oversized(p) /\ PushRead(r, p)
        /\ \E p \in TreeFiles :
              TreeOf(remote.tree)[p].size = SizeLimit /\ p \in CollectedPaths(r)
        /\ CollectedPaths(r) = {p \in TreeFiles : ~Oversized(p)}

\* The decoded contents of the files of the long trees.
Originals ==
    [id \in LongTrees |->
        [p \in DOMAIN BaseFiles(id) |-> base64decode(TreeOf(id)[p].content).val]]

\* C10: a collected content is at most the truncation bound long, and when the
\* decoded content of the file is longer it is exactly that long and is the
\* first code units of the decoded content.
C10_Truncation ==
    \A r \in Runs :
        \A i \in DOMAIN run[r].collected :
            LET got == run[r].collected[i].content
                original == Originals[remote.tree][run[r].collected[i].path]
            IN  /\ Len(got) <= TruncLimit
                /\ Len(original) > TruncLimit =>
                      /\ Len(got) = TruncLimit
                      /\ got = SubSeq(original, 1, TruncLimit)
C10_Witness ==
    \E r \in Runs :
        \E i \in DOMAIN run[r].collected :
            /\ Len(run[r].collected[i].content) = TruncLimit
            /\ Len(Originals[remote.tree][run[r].collected[i].path]) = TruncLimit + 2

\* The existence check of apply mode: a read of a path on the new branch.
IsProbe(c) ==
    /\ c.svc = "github" /\ c.kind = "contents" /\ c.method = "GET"
    /\ "from" \notin DOMAIN c.args
\* The step of apply mode a call belongs to; 0 for the calls before apply mode.
ApplierStep(c) ==
    IF IsLookup(c) THEN 1
    ELSE IF IsCreate(c) THEN 2
    ELSE IF IsProbe(c) \/ IsWrite(c) THEN 3
    ELSE IF IsPr(c) THEN 4
    ELSE 0

\* C11 as stated: every call of an earlier step of apply mode, the existence
\* checks included, succeeded before a call of a later step is issued.
C11_Original ==
    \A r \in Runs :
        LET log == run[r].log
        IN  \A j \in DOMAIN log : \A i \in 1..(j - 1) :
                (ApplierStep(log[i]) > 0 /\ ApplierStep(log[i]) < ApplierStep(log[j])) =>
                    log[i].result = "ok"

\* C11, amended: every call of an earlier step other than an existence check
\* succeeded before a call of a later step is issued; after a failed lookup the
\* run issues no mutating call, and after a rejected branch creation it issues
\* no existence check, file write or pull request.
C11_StepsGated ==
    \A r \in Runs :
        LET log == run[r].log
        IN  /\ \A j \in DOMAIN log : \A i \in 1..(j - 1) :
                  (/\ ApplierStep(log[i]) > 0 /\ ~IsProbe(log[i])
                   /\ ApplierStep(log[i]) < ApplierStep(log[j])) =>
                      log[i].result = "ok"
            /\ (\E i \in DOMAIN log : IsLookup(log[i]) /\ log[i].result # "ok") =>
                  \A j \in DOMAIN log : ~IsMutating(log[j])
            /\ (\E i \in DOMAIN log : IsCreate(log[i]) /\ log[i].result # "ok") =>
                  \A j \in DOMAIN log :
                      ~IsProbe(log[j]) /\ ~IsWrite(log[j]) /\ ~IsPr(log[j])
            /\ \A j \in DOMAIN log :
                  /\ ApplierStep(log[j]) = 2 =>
                        \E i \in 1..(j - 1) : IsLookup(log[i]) /\ log[i].result = "ok"
                  /\ ApplierStep(log[j]) > 2 =>
                        \E i \in 1..(j - 1) : IsCreate(log[i]) /\ log[i].result = "ok"
C11_Witness ==
    \E r \in Runs :
        /\ run[r].pc = "done" /\ run[r].response.ok = FALSE
        /\ run[r].log # <<>>
        /\ IsCreate(LastCall(r)) /\ LastCall(r).result = "fail"
        /\ \E i \in DOMAIN run[r].log : IsLookup(run[r].log[i]) /\ run[r].log[i].result = "ok"

\* The number of existence checks among the first i calls of a run: the
\* position of the i-th call's file among the proposed changes.
ProbesUpTo(r, i) == Cardinality({k \in 1..i : IsProbe(run[r].log[k])})

\* C12: a failed existence check does not end the run: the next call of the
\* run is the write of the same path, its payload carries no SHA, and a write
\* that succeeds is recorded as 'created'.
C12_ProbeFailureMeansAbsent ==
    \A r \in Runs :
        LET log == run[r].log
        IN  \A i \in DOMAIN log :
                (IsProbe(log[i]) /\ log[i].result # "ok") =>
                    IF i = Len(log)
                      THEN run[r].pc = "write" /\ run[r].existingSha = NoSha
                    ELSE /\ IsWrite(log[i + 1])
                         /\ log[i + 1].args.path = log[i].args.path
                         /\ "sha" \notin DOMAIN log[i + 1].args.payload
                         /\ log[i + 1].result = "ok" =>
                               /\ Len(run[r].updateResults) >= ProbesUpTo(r, i)
                               /\ run[r].updateResults[ProbesUpTo(r, i)].status = "created"
C12_Witness ==
    \E r \in Runs :
        LET log == run[r].log
        IN  /\ Len(log) > 4
            /\ Len(run[r].updateResults) = 1
            /\ run[r].updateResults[1].status = "created"
            /\ IsWrite(log[Len(log)])
            /\ "sha" \notin DOMAIN log[Len(log)].args.payload
            /\ log[Len(log)].args.path \in DOMAIN BaseFiles(remote.tree)
            /\ IsProbe(log[Len(log) - 1]) /\ log[Len(log) - 1].result = "fail"
            /\ IsProbe(log[Len(log) - 3]) /\ log[Len(log) - 3].result = "fail"

\* The proposed change a write of a run is for.
WrittenChange(r, i) == run[r].harmonizerResult.files[ProbesUpTo(r, i)]

\* C13: every file write a run issues is for a proposed change that has a
\* path, and the path is not empty.
C13_WritesHavePaths ==
    \A r \in Runs :
        \A i \in DOMAIN run[r].log :
            IsWrite(run[r].log[i]) =>
                /\ "path" \in DOMAIN WrittenChange(r, i)
                /\ WrittenChange(r, i).path # ""

\* The files of the reply the model service gave to a run.
Proposed(r) ==
    LET calls == SelectSeq(run[r].log, IsModelCall)
    IN  calls[1].reply.value.files

\* C14: in a run that ends in the apply response, the k-th file write is the
\* write of the k-th proposed change, and changedFiles has one entry for each
\* proposed change, in the order of the reply and with its path; while a run
\* writes, the outcomes recorded so far are those of the first changes.
C14_WritesInOrder ==
    \A r \in Runs :
        /\ \A k \in DOMAIN run[r].updateResults :
              run[r].updateResults[k].path = Field(Proposed(r)[k], "path", undefined)
        /\ (run[r].pc = "done" /\ run[r].response.ok /\ run[r].response.mode = "apply") =>
              LET files == Proposed(r)
                  writes == SelectSeq(run[r].log, IsWrite)
                  changed == run[r].response.changedFiles
              IN  /\ Len(writes) = Len(files)
                  /\ \A k \in DOMAIN files :
                        /\ writes[k].args.path = UrlPath(files[k])
                        /\ writes[k].args.payload.content = base64encode(files[k].content).val
                  /\ Len(changed) = Len(files)
                  /\ \A k \in DOMAIN files :
                        /\ changed[k].path = Field(files[k], "path", undefined)
                        /\ changed[k].status \in {"created", "updated"}
C14_Witness ==
    \E r \in Runs :
        /\ run[r].pc = "done" /\ run[r].response.ok /\ run[r].response.mode = "apply"
        /\ Len(run[r].response.changedFiles) = 2
        /\ run[r].response.changedFiles[1].path = "new.txt"
        /\ run[r].response.changedFiles[2].path = "src/a.txt"

Count(log, Is(_)) == Len(SelectSeq(log, Is))
\* Each call that is made once is in the log at most once, and no two writes
\* are for the same proposed change.
IssuedOnce(r) ==
    LET log == run[r].log
    IN  /\ Count(log, IsModelCall) <= 1
        /\ Count(log, IsLookup) <= 1
        /\ Count(log, IsCreate) <= 1
        /\ Count(log, IsPr) <= 1
        /\ \A i, j \in DOMAIN log :
              (i < j /\ IsWrite(log[i]) /\ IsWrite(log[j])) =>
                  /\ ProbesUpTo(r, i) < ProbesUpTo(r, j)
                  /\ ProbesUpTo(r, j) <= Len(Proposed(r))
\* The i-th call of the run is its last and the run is over with ok:false.
EndsRun(r, i) ==
    i = Len(run[r].log) /\ run[r].pc = "done" /\ run[r].response.ok = FALSE

\* C15 as stated: each call is issued at most once, and every failed call
\* other than an existence check ends the run.
C15_Original ==
    \A r \in Runs :
        /\ IssuedOnce(r)
        /\ \A i \in DOMAIN run[r].log :
              (run[r].log[i].result # "ok" /\ ~IsProbe(run[r].log[i])) => EndsRun(r, i)

\* C15, amended: each call is issued at most once, and every failed call of
\* the model service, lookup, branch creation, file write or pull request
\* ends the run; a read of the collection answered with a status that is not
\* a success is not issued again either, and the run goes on.
C15_NoRetries ==
    \A r \in Runs :
        LET log == run[r].log
        IN  /\ IssuedOnce(r)
            /\ \A i \in DOMAIN log :
                  /\ (/\ log[i].result # "ok"
                      /\ IsModelCall(log[i]) \/ IsLookup(log[i]) \/ IsMutating(log[i])) =>
                         EndsRun(r, i)
                  /\ (log[i].result = "fail" /\ ApplierStep(log[i]) = 0
                      /\ ~IsModelCall(log[i]) /\ i < Len(log)) =>
                         log[i + 1].args # log[i].args
C15_Witness ==
    \E r \in Runs :
        LET log == run[r].log
        IN  /\ Len(log) > 5
            /\ EndsRun(r, Len(log))
            /\ IsWrite(log[Len(log)])
            /\ \E i \in DOMAIN log : IsProbe(log[i]) /\ log[i].result = "fail"
            /\ \E i \in DOMAIN log : ~IsProbe(log[i]) /\ log[i].result = "fail" /\ i < Len(log)

\* A read of crawlGitHubDir or pushFile.
IsCollectionRead(c) ==
    /\ c.svc = "github" /\ c.kind = "contents" /\ c.method = "GET"
    /\ "from" \in DOMAIN c.args

\* C17: a listing or file read of the collection that fails does not end the
\* collection: after it the run is still collecting, or has visited every
\* entry and goes on to the model service, or has visited every entry, has
\* collected nothing and answers 'no files found'.
C17_FailedFetchNeverAborts ==
    \A r \in Runs :
        LET log == run[r].log
        IN  \A i \in DOMAIN log :
                (IsCollectionRead(log[i]) /\ log[i].result # "ok" /\ i = Len(log)) =>
                    \/ run[r].pc = "collect"
                    \/ run[r].pc = "model" /\ run[r].todo = <<>>
                    \/ /\ run[r].pc = "done" /\ run[r].todo = <<>>
                       /\ run[r].collected = <<>> /\ run[r].response.status = 400

\* C16: the files of the prompt are the first FileCap collected files, or all
\* of them when fewer were collected, in the order of collection; a run that
\* collected more goes on to call the model service.
C16_FileCap ==
    \A r \in Runs :
        LET log == run[r].log
            n == Len(run[r].collected)
            m == IF n < FileCap THEN n ELSE FileCap
        IN  /\ \A i \in DOMAIN log :
                  IsModelCall(log[i]) =>
                      /\ Len(log[i].args.files) = m
                      /\ \A k \in 1..m :
                            log[i].args.files[k] =
                                <<"--- FILE: ", run[r].collected[k].path,
                                  run[r].collected[k].content>>
            /\ (CollectionFinished(r) /\ n > FileCap) =>
                  \/ run[r].pc = "model"
                  \/ \E i \in DOMAIN log : IsModelCall(log[i])
C16_Witness ==
    \E r \in Runs :
        /\ Len(run[r].collected) = FileCap + 2
        /\ run[r].pc = "done" /\ run[r].response.status = 200
        /\ \E i \in DOMAIN run[r].log :
              /\ IsModelCall(run[r].log[i])
              /\ Len(run[r].log[i].args.files) = FileCap

\* The files of a tree in depth-first order from a path: a file is itself, a
\* directory is its entries in listing order, each sub-directory in full
\* before the entry after it.
RECURSIVE Walk(_, _)
RECURSIVE WalkItems(_, _)
Walk(tree, path) ==
    IF path \notin DOMAIN tree THEN <<>>
    ELSE IF tree[path].type = "file" THEN <<path>>
    ELSE WalkItems(tree, tree[path].entries)
WalkItems(tree, items) ==
    IF items = <<>> THEN <<>>
    ELSE LET it == Head(items)
             first == IF it.type = "dir" THEN Walk(tree, it.path)
                      ELSE IF it.type = "file" THEN <<it.path>>
                      ELSE <<>>
         IN  first \o WalkItems(tree, Tail(items))
RECURSIVE WalkAll(_, _)
WalkAll(tree, paths) ==
    IF paths = <<>> THEN <<>> ELSE Walk(tree, Head(paths)) \o WalkAll(tree, Tail(paths))
\* s is t with some of its elements left out.
RECURSIVE IsSubseq(_, _)
IsSubseq(s, t) ==
    IF s = <<>> THEN TRUE
    ELSE IF t = <<>> THEN FALSE
    ELSE IF Head(s) = Head(t) THEN IsSubseq(Tail(s), Tail(t))
    ELSE IsSubseq(s, Tail(t))
CollectedOrder(r) == [i \in DOMAIN run[r].collected |-> run[r].collected[i].path]

\* C18: the paths of the collected files, in order, are the depth-first walks
\* of the starting paths in input order with the files that were skipped left
\* out; when every read has succeeded they are these walks with only the
\* files pushFile skips left out.
C18_DepthFirstOrder ==
    \A r \in Runs :
        Active(r) =>
            LET walk == WalkAll(TreeOf(remote.tree), run[r].paths)
            IN  /\ IsSubseq(CollectedOrder(r), walk)
                /\ (/\ CollectionFinished(r)
                    /\ \A i \in DOMAIN run[r].log :
                          IsCollectionRead(run[r].log[i]) => run[r].log[i].result = "ok") =>
                       CollectedOrder(r) = SelectSeq(walk, Collectable)
C18_Witness ==
    \E r \in Runs :
        /\ run[r].paths = <<"pkg/sub", WideName(1)>>
        /\ CollectedOrder(r) =
              <<"pkg/sub/s1", "pkg/sub/deep/d1", "pkg/sub/deep/d2", "pkg/sub/s2", WideName(1)>>

\* The reads by crawlGitHubDir, and by pushFile, of a path.
Visits(r, from, path) ==
    Cardinality({i \in DOMAIN run[r].log :
                    /\ IsCollectionRead(run[r].log[i])
                    /\ run[r].log[i].args.from = from
                    /\ run[r].log[i].args.path = path})
VisitsBounded ==
    \A r \in Runs :
        \A i \in DOMAIN run[r].log :
            IsCollectionRead(run[r].log[i]) =>
                Visits(r, run[r].log[i].args.from, run[r].log[i].args.path)
                    <= Len(run[r].paths)

\* C19: when every remote call resolves, a run that collects leaves the
\* collection, and each listing and each file is read at most once for each
\* starting path.
C19_CollectionTerminates ==
    /\ []VisitsBounded
    /\ \A r \in Runs : (run[r].pc = "collect") ~> (run[r].pc # "collect")
C19_Witness ==
    \E r \in Runs :
        /\ run[r].paths = <<"pkg/sub/deep", "pkg">> /\ CollectionFinished(r)
        /\ run[r].pc = "model"
        /\ Visits(r, "crawlGitHubDir", "pkg/sub/deep") = 2
        /\ Visits(r, "pushFile", "pkg/sub/deep/d1") = 2
        /\ Visits(r, "pushFile", "pkg/sub/s2") = 1

\* The run is over with the apply response.
Succeeded(r) ==
    run[r].pc = "done" /\ run[r].response.ok /\ run[r].response.mode = "apply"
\* The branch creation of the run was accepted.
CreatedBranch(r) ==
    \E i \in DOMAIN run[r].log : IsCreate(run[r].log[i]) /\ run[r].log[i].result = "ok"

\* C20: of two runs served concurrently, those whose branch creation was
\* accepted have different branch names, and two runs that both end in the
\* apply response report different branches.
C20_DistinctBranches ==
    \A r1, r2 \in Runs :
        r1 # r2 =>
            /\ (CreatedBranch(r1) /\ CreatedBranch(r2)) =>
                  run[r1].newBranch # run[r2].newBranch
            /\ (Succeeded(r1) /\ Succeeded(r2)) =>
                  run[r1].response.branch # run[r2].response.branch
C20_Witness ==
    \E r1, r2 \in Runs :
        /\ r1 # r2 /\ Succeeded(r1) /\ Succeeded(r2)
        /\ \E i \in DOMAIN run[r1].log, j \in DOMAIN run[r2].log :
              /\ IsCreate(run[r1].log[i]) /\ IsCreate(run[r2].log[j])
              /\ run[r1].log[i].args.sha = run[r2].log[j].args.sha
\* Two runs that read the same clock value: one creation is rejected.
SameClockRead ==
    \E r1, r2 \in Runs :
        /\ r1 # r2
        /\ CreatedBranch(r1) /\ run[r2].pc = "done" /\ run[r2].log # <<>>
        /\ IsCreate(LastCall(r2)) /\ LastCall(r2).result = "fail"
        /\ run[r1].newBranch = run[r2].newBranch

\* The branch creations of a run that the provider accepted.
Creations(r) ==
    {i \in DOMAIN run[r].log : IsCreate(run[r].log[i]) /\ run[r].log[i].result = "ok"}
\* The paths of a branch that differ from the base branch.
Changed(branch) ==
    LET base == BaseFiles(remote.tree)
        files == remote.branches[branch]
    IN  {p \in DOMAIN files : p \notin DOMAIN base \/ files[p] # base[p]}

\* C21: every existence check and file write of a run names the branch whose
\* creation by this run the provider accepted before, the pull request has
\* that branch as head and the base branch as base, that branch is neither the
\* base branch nor a branch another run created, and the files of a branch
\* that differ from the base are those its creator has written.
C21_WritesTargetOwnBranch ==
    \A r \in Runs :
        LET log == run[r].log
        IN  /\ \A i \in DOMAIN log :
                  (IsProbe(log[i]) \/ IsWrite(log[i]) \/ IsPr(log[i])) =>
                      /\ \E c \in Creations(r) : c < i /\ log[c].args.ref = run[r].newBranch
                      /\ IsProbe(log[i]) => log[i].args.ref = run[r].newBranch
                      /\ IsWrite(log[i]) => log[i].args.payload.branch = run[r].newBranch
                      /\ IsPr(log[i]) =>
                            /\ log[i].args.head = run[r].newBranch
                            /\ log[i].args.base = run[r].baseBranch
                      /\ run[r].newBranch # run[r].baseBranch
                      /\ \A r2 \in Runs \ {r} :
                            \A c \in Creations(r2) :
                                run[r2].log[c].args.ref # run[r].newBranch
            /\ Creations(r) # {} =>
                  Changed(run[r].newBranch) =
                      {log[i].args.path : i \in {j \in DOMAIN log :
                                                    IsWrite(log[j]) /\ log[j].result = "ok"}}
C21_Witness ==
    \A r \in Runs :
        /\ Succeeded(r)
        /\ Changed(run[r].newBranch) # {}
        /\ \E i \in DOMAIN run[r].log : IsProbe(run[r].log[i]) /\ run[r].log[i].result = "ok"

\* The file writes and the existence checks of a run, in the order of issue.
Writes(r) == SelectSeq(run[r].log, IsWrite)
Probes(r) == SelectSeq(run[r].log, IsProbe)
\* The k-th write is for a path that is not on the base branch and that an
\* earlier write of the run was for.
Rewrites(r, k) ==
    /\ Writes(r)[k].args.path \notin DOMAIN BaseFiles(remote.tree) \cup {""}
    /\ \E j \in 1..(k - 1) : Writes(r)[j].args.path = Writes(r)[k].args.path
\* The k-th write is the first one for a path that is not on the base branch.
WritesAnew(r, k) ==
    /\ Writes(r)[k].args.path \notin DOMAIN BaseFiles(remote.tree) \cup {""}
    /\ \A j \in 1..(k - 1) : Writes(r)[j].args.path # Writes(r)[k].args.path
\* The k-th write carries a SHA and its outcome, once recorded, is 'updated'.
SentAsUpdate(r, k) ==
    /\ "sha" \in DOMAIN Writes(r)[k].args.payload
    /\ k \in DOMAIN run[r].updateResults => run[r].updateResults[k].status = "updated"
\* The k-th write carries no SHA and its outcome, once recorded, is 'created'.
SentAsCreate(r, k) ==
    /\ "sha" \notin DOMAIN Writes(r)[k].args.payload
    /\ k \in DOMAIN run[r].updateResults => run[r].updateResults[k].status = "created"
\* The run is about to write a path that is not on the base branch and that
\* one of its earlier writes was for.
PendingRewrite(r) ==
    /\ run[r].pc = "write"
    /\ UrlPath(PendingFile(r)) \notin DOMAIN BaseFiles(remote.tree) \cup {""}
    /\ \E j \in DOMAIN Writes(r) : Writes(r)[j].args.path = UrlPath(PendingFile(r))
\* The write the run is about to issue carries the SHA of the file that the
\* earlier write left on the branch.
PendingCarriesSha(r) ==
    /\ "sha" \in DOMAIN PendingPayload(r)
    /\ PendingPayload(r).sha = OnBranch(r)[UrlPath(PendingFile(r))]
    /\ PendingStatus(r) = "updated"

\* C22 as stated: the first write for a path that is absent on the base branch
\* carries no SHA and is recorded as 'created', and every later write for the
\* same path carries the SHA of the file the earlier write left and is
\* recorded as 'updated'.
C22_Original ==
    \A r \in Runs :
        /\ \A k \in DOMAIN Writes(r) :
              /\ WritesAnew(r, k) => SentAsCreate(r, k)
              /\ Rewrites(r, k) => SentAsUpdate(r, k)
        /\ PendingRewrite(r) => PendingCarriesSha(r)

\* C22, amended: the later write carries the SHA and is recorded as 'updated'
\* when its existence check succeeded; when that check failed the write
\* carries no SHA, and the provider refuses it.
C22_DuplicatePath ==
    \A r \in Runs :
        /\ \A k \in DOMAIN Writes(r) :
              /\ WritesAnew(r, k) => SentAsCreate(r, k)
              /\ Rewrites(r, k) =>
                    IF Probes(r)[k].result = "ok"
                      THEN SentAsUpdate(r, k)
                    ELSE SentAsCreate(r, k) /\ Writes(r)[k].result # "ok"
        /\ PendingRewrite(r) =>
              IF LastCall(r).result = "ok"
                THEN PendingCarriesSha(r)
              ELSE "sha" \notin DOMAIN PendingPayload(r) /\ PendingStatus(r) = "created"
C22_Witness ==
    \E r \in Runs :
        /\ Succeeded(r)
        /\ Len(Writes(r)) = 2
        /\ Rewrites(r, 2)
        /\ run[r].updateResults[1].status = "created"
        /\ run[r].updateResults[2].status = "updated"
        /\ "sha" \notin DOMAIN Writes(r)[1].args.payload
        /\ "sha" \in DOMAIN Writes(r)[2].args.payload

\* The kinds of response of the handler.
IsValidationFailure(resp) ==
    resp.status = 500 /\ ~resp.ok /\ resp.error \in ValidationErrors
IsNoFilesFailure(resp) ==
    resp.status = 400 /\ ~resp.ok /\ resp.error = "No files found in provided paths"
IsEmptyRewriteFailure(resp) ==
    resp.status = 500 /\ ~resp.ok /\ resp.error = "Harmonizer returned no files"
IsPreviewResult(resp) == resp.status = 200 /\ resp.ok /\ resp.mode = "preview"
IsApplyResult(resp) == resp.status = 200 /\ resp.ok /\ resp.mode = "apply"
IsGenericError(resp) ==
    /\ resp.status \in {405, 500} /\ ~resp.ok
    /\ resp.error \notin ValidationErrors \cup {"Harmonizer returned no files"}
ResponseKinds(resp) ==
    {k \in 1..6 : CASE k = 1 -> IsValidationFailure(resp)
                    [] k = 2 -> IsNoFilesFailure(resp)
                    [] k = 3 -> IsEmptyRewriteFailure(resp)
                    [] k = 4 -> IsPreviewResult(resp)
                    [] k = 5 -> IsApplyResult(resp)
                    [] k = 6 -> IsGenericError(resp)}
\* A run has a response exactly when it is over, and the response is of
\* exactly one kind.
OneKind ==
    \A r \in Runs :
        /\ (run[r].pc = "done") <=> (run[r].response # NoResponse)
        /\ run[r].pc = "done" => Cardinality(ResponseKinds(run[r].response)) = 1
\* A run that has responded takes no further step.
Final ==
    \A r \in Runs : run[r].response # NoResponse => run'[r] = run[r]

\* C23: every request is answered exactly once: a run that has started
\* eventually has a response, the response is of exactly one of the six
\* kinds, and a run that has responded does nothing more.
C23_OneResponse ==
    /\ []OneKind
    /\ [][Final]_vars
    /\ \A r \in Runs : Active(r) ~> (run[r].pc = "done")
C23_Witness ==
    \E r \in Runs :
        /\ run[r].pc = "done"
        /\ IsGenericError(run[r].response)
        /\ run[r].log # <<>>
        /\ IsPr(LastCall(r))
        /\ Len(run[r].updateResults) = 2

\* The names of the steps of worker.js, in the order of the handler.
StepNames == <<"get_base_ref", "create_ref", "create_file", "create_pr">>
\* The request of a run of worker.js lacks the owner, the repository or the
\* token.
Unconfigured(r) ==
    /\ run[r].request.path = "/api/harmonize" /\ run[r].request.method = "POST"
    /\ \/ Missing(run[r].request.env, "GITHUB_OWNER")
       \/ Missing(run[r].request.env, "GITHUB_REPO")
       \/ Missing(run[r].request.env, "GITHUB_TOKEN")
\* The calls of a run of worker.js are its steps in order, each issued after
\* the success of the one before, and a run without owner, repository or
\* token issues none.
StepsInOrder(r) ==
    LET log == run[r].log
    IN  /\ Len(log) <= 4
        /\ \A i \in DOMAIN log : ApplierStep(log[i]) = i
        /\ \A i \in DOMAIN log : i > 1 => log[i - 1].result = "ok"
        /\ (Unconfigured(r) /\ run[r].pc # "api") =>
              /\ log = <<>>
              /\ run[r].pc = "done"
              /\ run[r].response.status = 500 /\ ~run[r].response.ok
              /\ "step" \notin DOMAIN run[r].response
\* The response of a run names the step of its last call.
NamesLastStep(r) ==
    /\ run[r].pc = "done"
    /\ run[r].response.status = 500 /\ ~run[r].response.ok
    /\ "step" \in DOMAIN run[r].response
    /\ run[r].response.step = StepNames[Len(run[r].log)]

\* C24 as stated: the calls are the four steps in order, a run without owner,
\* repository or token issues none, and when a call is answered with a
\* status that is not a success it is the last call of the run and the
\* response is ok:false with the name of its step.
C24_Original ==
    \A r \in Runs :
        Active(r) =>
            /\ StepsInOrder(r)
            /\ \A i \in DOMAIN run[r].log :
                  run[r].log[i].result = "fail" => i = Len(run[r].log) /\ NamesLastStep(r)

\* C24, amended: the response names the step when the body of the failed
\* answer can be read; when it cannot, or when the fetch itself fails, the
\* response is ok:false with an error and without a step.  In each case the
\* failed call is the last call of the run.
C24_StepsInOrder ==
    \A r \in Runs :
        Active(r) =>
            /\ StepsInOrder(r)
            /\ \A i \in DOMAIN run[r].log :
                  run[r].log[i].result # "ok" =>
                      /\ i = Len(run[r].log)
                      /\ IF run[r].log[i].result = "fail" /\ run[r].log[i].readable
                            THEN NamesLastStep(r)
                          ELSE /\ run[r].pc = "done"
                               /\ run[r].response.status = 500 /\ ~run[r].response.ok
                               /\ "step" \notin DOMAIN run[r].response
                               /\ "error" \in DOMAIN run[r].response
C24_Witness ==
    \E r \in Runs :
        /\ Len(run[r].log) = 3
        /\ run[r].log[3].result = "fail" /\ run[r].log[3].readable
        /\ NamesLastStep(r)
        /\ run[r].response.step = "create_file"
        /\ run[r].branchName \in DOMAIN remote.branches
        /\ remote.prs = <<>>
====
